---- MODULE Spec2Model ----
(***************************************************************************)
(* Model of the AppLink provisioning service: the POST /provisionServices  *)
(* route (routes/api.js), the background worker provisionServices with its *)
(* helpers queryAll, mockProvisionCall and sanitizeSalesforceId            *)
(* (services/provisionServices.js).  All of them are found concatenated in *)
(* src/bin/apidocgen.sh (lines 102-475).                                   *)
(***************************************************************************)
EXTENDS Integers, Sequences, FiniteSets, TLC

VARIABLES
  reqs,      \* the HTTP transactions handled so far, in arrival order
  minted,    \* the values crypto.randomUUID() has returned so far
  workers,   \* the setImmediate callbacks scheduled so far, each with the
             \* state of its provisionServices invocation
  crashed,   \* TRUE once an exception escaped every handler (host process dies)
  sanIn,     \* input of the sanitizer harness
  sanOut,    \* last output of the sanitizer harness
  sanStep    \* how many times the harness applied sanitizeSalesforceId

vars == <<reqs, minted, workers, crashed, sanIn, sanOut, sanStep>>

----------------------------------------------------------------------------
(* Bounds *)

MaxRequests == 2    \* HTTP requests that arrive in one run
MaxIds      == 3    \* length of opportunityIds in a request body
MaxPageSize == 2    \* records the data source puts in one page
SanMaxLen   == 19   \* longest core of a string handed to the sanitizer harness

----------------------------------------------------------------------------
(* JavaScript values.  A value is a record [t, v]: t is the typeof tag, v   *)
(* the characters of a string (one-character strings) and <<>> otherwise.  *)

UNDEFINED == "undefined"

JsString(chars) == [t |-> "string", v |-> chars]
JsNull          == [t |-> "null",   v |-> <<>>]
JsNumber        == [t |-> "number", v |-> <<>>]

RECURSIVE Rep(_, _)
Rep(c, n) == IF n = 0 THEN <<>> ELSE <<c>> \o Rep(c, n - 1)

\* [a-zA-Z0-9]
AlnumChars ==
  { "a","b","c","d","e","f","g","h","i","j","k","l","m",
    "n","o","p","q","r","s","t","u","v","w","x","y","z",
    "A","B","C","D","E","F","G","H","I","J","K","L","M",
    "N","O","P","Q","R","S","T","U","V","W","X","Y","Z",
    "0","1","2","3","4","5","6","7","8","9" }

\* the characters String.prototype.trim strips (those the inputs use)
WhiteSpaceChars == { " ", "\t", "\n", "\r" }

RECURSIVE TrimStart(_)
TrimStart(s) ==
  IF s # <<>> /\ Head(s) \in WhiteSpaceChars THEN TrimStart(Tail(s)) ELSE s

RECURSIVE TrimEnd(_)
TrimEnd(s) ==
  IF s # <<>> /\ s[Len(s)] \in WhiteSpaceChars
  THEN TrimEnd(SubSeq(s, 1, Len(s) - 1))
  ELSE s

\* String.prototype.trim
Trim(s) == TrimEnd(TrimStart(s))

\* /^[a-zA-Z0-9]{15,18}$/.test(s)
IdPatternMinLen == 15
IdPatternMaxLen == 18
IdPatternTest(s) ==
  /\ Len(s) >= IdPatternMinLen
  /\ Len(s) <= IdPatternMaxLen
  /\ \A i \in 1..Len(s) : s[i] \in AlnumChars

sanitizeSalesforceId(id) ==
  IF id.t # "string" THEN JsNull
  ELSE LET trimmed == Trim(id.v)
       IN  IF IdPatternTest(trimmed) THEN JsString(trimmed) ELSE JsNull

----------------------------------------------------------------------------
(* Test data: the ids clients send and the records of the org.             *)

OPP_A    == JsString(<<"0","0","6">> \o Rep("A", 12))           \* 15 characters
OPP_B    == JsString(<<"0","0","6">> \o Rep("b", 15))           \* 18 characters
OPP_C    == JsString(<<"0","0","6">> \o Rep("7", 15))           \* 18 characters
PADDED_B == JsString(<<" ">> \o OPP_B.v \o <<" ">>)             \* " 006bbb... "
INJECT   == JsString(Rep("x", 7) \o <<"'">> \o Rep("x", 7))     \* 15 with a quote

RequestIds == { OPP_A, PADDED_B, OPP_C, INJECT }

\* the Opportunity records of the org with their OpportunityLineItems,
\* in the order the data source returns them
Org ==
  << [ Id |-> OPP_A,
       OpportunityLineItems |->
         << [ Id |-> "00k1", Product2Name |-> "Cloud Storage", Product2Id |-> "01t1" ],
            [ Id |-> "00k2", Product2Name |-> UNDEFINED,       Product2Id |-> "01t2" ] >> ],
     [ Id |-> OPP_C,
       OpportunityLineItems |-> << >> ],
     [ Id |-> OPP_B,
       OpportunityLineItems |->
         << [ Id |-> "00k3", Product2Name |-> UNDEFINED, Product2Id |-> UNDEFINED ] >> ] >>

\* rows of ProvisioningParameter__mdt the configuration query may return
ParameterRows ==
  { << >>,
    << [ Name__c |-> "DefaultTier", Value__c |-> "Premium" ] >> }

CallbackUrls == { UNDEFINED, "https://example.test/cb" }

\* request.salesforce as the middleware may leave it: each field tells whether
\* that level of client.context.org.dataApi is there
ClientShape(c, x, o, d) == [ client |-> c, context |-> x, org |-> o, dataApi |-> d ]
Clients ==
  { ClientShape(FALSE, FALSE, FALSE, FALSE),
    ClientShape(TRUE,  FALSE, FALSE, FALSE),
    ClientShape(TRUE,  TRUE,  FALSE, FALSE),
    ClientShape(TRUE,  TRUE,  TRUE,  FALSE),
    ClientShape(TRUE,  TRUE,  TRUE,  TRUE) }

RECURSIVE SeqsUpTo(_, _)
SeqsUpTo(S, n) ==
  IF n = 0 THEN { << >> }
  ELSE LET shorter == SeqsUpTo(S, n - 1)
       IN  shorter \cup { Append(q, x) : q \in shorter, x \in S }

JsArray(items) == [ t |-> "array",     v |-> items ]
JsUndefined    == [ t |-> "undefined", v |-> << >> ]

\* request bodies: opportunityIds missing or an array of strings
Bodies ==
  [ opportunityIds : { JsUndefined } \cup { JsArray(q) : q \in SeqsUpTo(RequestIds, MaxIds) },
    callbackUrl    : CallbackUrls ]

----------------------------------------------------------------------------
(* The route POST /provisionServices.                                      *)

NoJob == 0
UUIDs == 1..MaxRequests

\* crypto.randomUUID(): a version-4 UUID, which no earlier call returned
randomUUID(used) == CHOOSE u \in UUIDs : u \notin used

\* Fastify validates the body against ProvisionServicesRequestSchema before
\* the handler runs: opportunityIds is required and is an array of strings.
\* The schema puts no lower bound on the number of items.
ValidBody(body) == body.opportunityIds.t = "array"

\* !client || !client.context || !client.context.org || !client.context.org.dataApi
ContextMissing(client) ==
  ~client.client \/ ~client.context \/ ~client.org \/ ~client.dataApi

\* acc = {} of the reduce over the parameter rows: no name is set
NoParameters == [ DefaultTier |-> UNDEFINED, Region |-> UNDEFINED, Compliance |-> UNDEFINED ]

\* the state of a provisionServices invocation that setImmediate has queued
NewWorker(req, jobId, opportunityIds, client, callbackUrl) ==
  [ req                    |-> req,
    jobId                  |-> jobId,
    opportunityIds         |-> opportunityIds,
    client                 |-> client,
    callbackUrl            |-> callbackUrl,
    pc                     |-> "scheduled",
    provisioningParameters |-> NoParameters,
    inList                 |-> << >>,
    cursor                 |-> << >>,
    pages                  |-> << >>,
    allRecords             |-> << >>,
    opportunities          |-> << >>,
    oppIdx                 |-> 0,
    oliIdx                 |-> 0,
    globalServiceCounter   |-> 0,
    services               |-> << >>,
    calls                  |-> << >>,
    summaries              |-> << >>,
    callbacks              |-> << >>,
    failedAt               |-> "none",
    outcome                |-> "running" ]

\* Handler without the check of request.salesforce
Handler_NoContextCheck(req, body, client, uuid) ==
  [ status |-> 201, jobId |-> uuid, generated |-> uuid,
    scheduled |-> << NewWorker(req, uuid, body.opportunityIds.v,
                               client, body.callbackUrl) >> ]

\* Handler with the job id generated once, when the route is registered
Handler_HoistedJobId(req, body, client, uuid) ==
  IF ContextMissing(client)
  THEN [ status |-> 401, jobId |-> NoJob, generated |-> 1, scheduled |-> << >> ]
  ELSE [ status |-> 201, jobId |-> 1, generated |-> 1,
         scheduled |-> << NewWorker(req, 1, body.opportunityIds.v,
                                    client, body.callbackUrl) >> ]

\* Handler that starts the worker and leaves the reply for after it
Handler_ReplyAfterWorker(req, body, client, uuid) ==
  IF ContextMissing(client)
  THEN [ status |-> 401, jobId |-> NoJob, generated |-> uuid, scheduled |-> << >> ]
  ELSE [ status |-> 0, jobId |-> NoJob, generated |-> uuid,
         scheduled |-> << NewWorker(req, uuid, body.opportunityIds.v,
                                    client, body.callbackUrl) >> ]

\* the handler of the route, for the req-th request: what it answers, the
\* job id it generated, and the callbacks it hands to setImmediate
Handler(req, body, client, uuid) ==
  IF ContextMissing(client)
  THEN [ status |-> 401, jobId |-> NoJob, generated |-> uuid, scheduled |-> << >> ]
  ELSE [ status |-> 201, jobId |-> uuid, generated |-> uuid,
         scheduled |-> << NewWorker(req, uuid, body.opportunityIds.v,
                                    client, body.callbackUrl) >> ]

\* one HTTP transaction: schema validation, then the handler
PostProvisionServices(body, client) ==
  /\ ~crashed
  /\ Len(reqs) < MaxRequests
  /\ LET req == Len(reqs) + 1
     IN  IF ~ValidBody(body)
         THEN /\ reqs' = Append(reqs, [ body |-> body, client |-> client,
                                        status |-> 400, jobId |-> NoJob,
                                        generated |-> NoJob ])
              /\ UNCHANGED <<minted, workers>>
         ELSE LET uuid == randomUUID(minted)
                  h    == Handler(req, body, client, uuid)
              IN  /\ reqs' = Append(reqs, [ body |-> body, client |-> client,
                                            status |-> h.status, jobId |-> h.jobId,
                                            generated |-> h.generated ])
                  /\ minted' = minted \cup { uuid }
                  /\ workers' = workers \o h.scheduled
  /\ UNCHANGED <<crashed, sanIn, sanOut, sanStep>>

----------------------------------------------------------------------------
(* The data source behind dataApi.query / dataApi.queryMore.               *)

\* the records a query "WHERE Id IN (inList)" selects, in the org's order
Selected(inList) ==
  SelectSeq(Org, LAMBDA r : \E i \in 1..Len(inList) : inList[i] = r.Id)

Min(a, b) == IF a <= b THEN a ELSE b

\* the pages the data source may answer with when `cursor` is what is left to
\* deliver: { records, done, nextRecordsUrl? }.  done is true exactly on the
\* page that delivers the rest; a page that is not the last may or may not
\* carry a nextRecordsUrl.
Pages(cursor) ==
  IF cursor = << >>
  THEN { [ records |-> << >>, done |-> TRUE, nextRecordsUrl |-> UNDEFINED ] }
  ELSE { p \in { [ records |-> SubSeq(cursor, 1, n),
                    done |-> (n = Len(cursor)),
                    nextRecordsUrl |-> u ] :
                    n \in 1..Min(MaxPageSize, Len(cursor)),
                    u \in { UNDEFINED, "/query/next" } } :
           p.done => p.nextRecordsUrl = UNDEFINED }

----------------------------------------------------------------------------
(* services/provisionServices.js                                           *)

\* paramResult.records.reduce(...): acc[Name__c] = Value__c for each row
RECURSIVE ReduceParameters(_, _)
ReduceParameters(acc, rows) ==
  IF rows = << >> THEN acc
  ELSE ReduceParameters(
         IF Head(rows).Name__c # UNDEFINED
         THEN [ acc EXCEPT ![Head(rows).Name__c] = Head(rows).Value__c ]
         ELSE acc,
         Tail(rows))

\* JavaScript truthiness of a string-or-null value (what filter(Boolean) keeps)
Truthy(x) == x.t = "string" /\ x.v # << >>

\* the IN list built from the ids as they were sent
opportunityIdList_Unsanitized(opportunityIds) == opportunityIds

\* opportunityIds.map(id => sanitizeSalesforceId(id)).filter(Boolean): the
\* literals of the IN list, before quoting and joining
opportunityIdList(opportunityIds) ==
  SelectSeq([ i \in 1..Len(opportunityIds) |-> sanitizeSalesforceId(opportunityIds[i]) ],
            Truthy)

\* oli.Product2?.fields?.Name || oli.Product2?.Name || oli.Product2Id || 'Service'
productLabel(oli) ==
  IF oli.Product2Name # UNDEFINED THEN oli.Product2Name
  ELSE IF oli.Product2Id # UNDEFINED THEN oli.Product2Id
  ELSE "Service"

OrDefault(x, d) == IF x # UNDEFINED THEN x ELSE d

\* the ServiceResult mockProvisionCall resolves with (the timestamp of the
\* message is left out)
mockProvisionCall(jobId, opportunityId, lineItemId, label, counter, parameters) ==
  [ serviceId        |-> << "svc", jobId, counter >>,
    opportunityId    |-> opportunityId,
    lineItemId       |-> lineItemId,
    productReference |-> label,
    status           |-> "Provisioned",
    message          |-> [ product    |-> label,
                           tier       |-> OrDefault(parameters.DefaultTier, "Standard"),
                           region     |-> OrDefault(parameters.Region, "US"),
                           compliance |-> OrDefault(parameters.Compliance, "General") ] ]

\* NextLineItem with `break` where the code has `continue`: an opportunity
\* without line items ends the outer loop
RECURSIVE NextLineItem_BreakOnEmpty(_, _, _)
NextLineItem_BreakOnEmpty(opps, i, j) ==
  IF i > Len(opps) THEN << 0, 0 >>
  ELSE IF i >= 1 /\ j < Len(opps[i].OpportunityLineItems) THEN << i, j + 1 >>
  ELSE IF i >= 1 /\ Len(opps[i].OpportunityLineItems) = 0 THEN << 0, 0 >>
  ELSE NextLineItem_BreakOnEmpty(opps, i + 1, 0)

\* the position of the next line item after (i, j) in the nested loops over
\* opportunities and their OpportunityLineItems; <<0, 0>> when there is none
RECURSIVE NextLineItem(_, _, _)
NextLineItem(opps, i, j) ==
  IF i > Len(opps) THEN << 0, 0 >>
  ELSE IF i >= 1 /\ j < Len(opps[i].OpportunityLineItems) THEN << i, j + 1 >>
  ELSE NextLineItem(opps, i + 1, 0)

\* AfterLoop with the summary counting the opportunities, not the services
AfterLoop_SummaryFromOpportunities(w) ==
  IF Len(w.services) = 0
  THEN [ w EXCEPT !.pc = "done", !.outcome = "noServices" ]
  ELSE LET summary == [ total     |-> Len(w.opportunities),
                        succeeded |-> Len(w.opportunities),
                        failed    |-> 0 ]
       IN  IF w.callbackUrl = UNDEFINED
           THEN [ w EXCEPT !.summaries = Append(@, summary),
                           !.pc = "done", !.outcome = "noCallback" ]
           ELSE [ w EXCEPT !.summaries = Append(@, summary),
                           !.calls = Append(@, "request"),
                           !.callbacks = Append(@,
                              [ url            |-> w.callbackUrl,
                                method         |-> "POST",
                                jobId          |-> w.jobId,
                                opportunityIds |-> w.opportunityIds,
                                services       |-> w.services,
                                summary        |-> summary,
                                status         |-> "completed",
                                errors         |-> << >> ]),
                           !.pc = "awaitCallback" ]

\* AfterLoop without the check for an empty services array
AfterLoop_NoEmptyCheck(w) ==
  LET summary == [ total     |-> Len(w.services),
                        succeeded |-> Len(w.services),
                        failed    |-> 0 ]
       IN  IF w.callbackUrl = UNDEFINED
           THEN [ w EXCEPT !.summaries = Append(@, summary),
                           !.pc = "done", !.outcome = "noCallback" ]
           ELSE [ w EXCEPT !.summaries = Append(@, summary),
                           !.calls = Append(@, "request"),
                           !.callbacks = Append(@,
                              [ url            |-> w.callbackUrl,
                                method         |-> "POST",
                                jobId          |-> w.jobId,
                                opportunityIds |-> w.opportunityIds,
                                services       |-> w.services,
                                summary        |-> summary,
                                status         |-> "completed",
                                errors         |-> << >> ]),
                           !.pc = "awaitCallback" ]

\* AfterLoop without the check of callbackUrl
AfterLoop_AlwaysCallback(w) ==
  IF Len(w.services) = 0
  THEN [ w EXCEPT !.pc = "done", !.outcome = "noServices" ]
  ELSE LET summary == [ total     |-> Len(w.services),
                        succeeded |-> Len(w.services),
                        failed    |-> 0 ]
       IN  IF FALSE
           THEN [ w EXCEPT !.summaries = Append(@, summary),
                           !.pc = "done", !.outcome = "noCallback" ]
           ELSE [ w EXCEPT !.summaries = Append(@, summary),
                           !.calls = Append(@, "request"),
                           !.callbacks = Append(@,
                              [ url            |-> w.callbackUrl,
                                method         |-> "POST",
                                jobId          |-> w.jobId,
                                opportunityIds |-> w.opportunityIds,
                                services       |-> w.services,
                                summary        |-> summary,
                                status         |-> "completed",
                                errors         |-> << >> ]),
                           !.pc = "awaitCallback" ]

\* AfterLoop that takes every callbackUrl for missing
AfterLoop_CallbackSkipped(w) ==
  IF Len(w.services) = 0
  THEN [ w EXCEPT !.pc = "done", !.outcome = "noServices" ]
  ELSE LET summary == [ total     |-> Len(w.services),
                        succeeded |-> Len(w.services),
                        failed    |-> 0 ]
       IN  IF TRUE
           THEN [ w EXCEPT !.summaries = Append(@, summary),
                           !.pc = "done", !.outcome = "noCallback" ]
           ELSE [ w EXCEPT !.summaries = Append(@, summary),
                           !.calls = Append(@, "request"),
                           !.callbacks = Append(@,
                              [ url            |-> w.callbackUrl,
                                method         |-> "POST",
                                jobId          |-> w.jobId,
                                opportunityIds |-> w.opportunityIds,
                                services       |-> w.services,
                                summary        |-> summary,
                                status         |-> "completed",
                                errors         |-> << >> ]),
                           !.pc = "awaitCallback" ]

\* what follows the loops: the empty check, the summary and the callback
AfterLoop(w) ==
  IF Len(w.services) = 0
  THEN [ w EXCEPT !.pc = "done", !.outcome = "noServices" ]
  ELSE LET summary == [ total     |-> Len(w.services),
                        succeeded |-> Len(w.services),
                        failed    |-> 0 ]
       IN  IF w.callbackUrl = UNDEFINED
           THEN [ w EXCEPT !.summaries = Append(@, summary),
                           !.pc = "done", !.outcome = "noCallback" ]
           ELSE [ w EXCEPT !.summaries = Append(@, summary),
                           !.calls = Append(@, "request"),
                           !.callbacks = Append(@,
                              [ url            |-> w.callbackUrl,
                                method         |-> "POST",
                                jobId          |-> w.jobId,
                                opportunityIds |-> w.opportunityIds,
                                services       |-> w.services,
                                summary        |-> summary,
                                status         |-> "completed",
                                errors         |-> << >> ]),
                           !.pc = "awaitCallback" ]

\* ContinueLoop with the counter declared inside the loop over opportunities
ContinueLoop_CounterPerOpportunity(w) ==
  LET nxt == NextLineItem(w.opportunities, w.oppIdx, w.oliIdx)
  IN  IF nxt = << 0, 0 >>
      THEN AfterLoop(w)
      ELSE [ w EXCEPT !.oppIdx = nxt[1], !.oliIdx = nxt[2],
                      !.globalServiceCounter = nxt[2],
                      !.calls = Append(@, "mockProvisionCall"),
                      !.pc = "awaitProvision" ]

\* ContinueLoop with one counter for the module, shared by every job
ContinueLoop_SharedCounter(w) ==
  LET nxt == NextLineItem(w.opportunities, w.oppIdx, w.oliIdx)
      started == { m \in DOMAIN workers : workers[m].globalServiceCounter > 0 }
  IN  IF nxt = << 0, 0 >>
      THEN AfterLoop(w)
      ELSE [ w EXCEPT !.oppIdx = nxt[1], !.oliIdx = nxt[2],
                      !.globalServiceCounter =
                         IF started \subseteq { w.req } THEN @ + 1 ELSE @ + 2,
                      !.calls = Append(@, "mockProvisionCall"),
                      !.pc = "awaitProvision" ]

\* the loops run up to their next await: the next mockProvisionCall, or the
\* code after the loops when no line item is left
ContinueLoop(w) ==
  LET nxt == NextLineItem(w.opportunities, w.oppIdx, w.oliIdx)
  IN  IF nxt = << 0, 0 >>
      THEN AfterLoop(w)
      ELSE [ w EXCEPT !.oppIdx = nxt[1], !.oliIdx = nxt[2],
                      !.globalServiceCounter = @ + 1,
                      !.calls = Append(@, "mockProvisionCall"),
                      !.pc = "awaitProvision" ]

\* queryAll after a page arrived: concatenate, then either ask for the next
\* page or return allRecords to provisionServices, which enters its loops
queryAll(w, result) ==
  LET got == [ w EXCEPT !.allRecords = @ \o result.records,
                        !.pages = Append(@, result),
                        !.cursor = SubSeq(@, Len(result.records) + 1, Len(@)) ]
  IN  IF ~result.done /\ result.nextRecordsUrl # UNDEFINED
      THEN [ got EXCEPT !.calls = Append(@, "queryMore"), !.pc = "awaitQueryMore" ]
      ELSE ContinueLoop([ got EXCEPT !.opportunities = got.allRecords ])

\* CatchSite with queryMore started outside every try (a floating promise)
CatchSite_QueryMoreFloating(site) ==
  CASE site = "request"         -> "callbackCatch"
    [] site = "query"           -> "provisionServices"
    [] site = "queryMore"       -> "none"
    [] site = "queryParameters" -> "provisionServices"
    [] site = "mockProvisionCall" -> "provisionServices"
    [] OTHER                    -> "setImmediate"

\* which try/catch receives an exception thrown by the await at `site`
CatchSite(site) ==
  CASE site = "request"         -> "callbackCatch"       \* catch (callbackError)
    [] site = "query"           -> "provisionServices"   \* rethrown by queryAll
    [] site = "queryMore"       -> "provisionServices"   \* rethrown by queryAll
    [] site = "queryParameters" -> "provisionServices"   \* catch (error)
    [] site = "mockProvisionCall" -> "provisionServices" \* catch (error)
    [] OTHER                    -> "setImmediate"        \* catch in the route

\* Thrown with a callback that is sent once more after it failed
Thrown_RetryCallback(w, site) ==
  IF site = "request" /\ Len(w.callbacks) < 2
  THEN [ w EXCEPT !.calls = Append(@, "request"),
                  !.callbacks = Append(@, w.callbacks[1]),
                  !.failedAt = site ]
  ELSE IF CatchSite(site) = "callbackCatch"
  THEN [ w EXCEPT !.pc = "done", !.failedAt = site, !.outcome = "callbackFailed" ]
  ELSE [ w EXCEPT !.pc = "done", !.failedAt = site, !.outcome = "error" ]

\* the worker after the await at `site` threw
Thrown(w, site) ==
  CASE CatchSite(site) = "callbackCatch" ->
         [ w EXCEPT !.pc = "done", !.failedAt = site, !.outcome = "callbackFailed" ]
    [] CatchSite(site) \in { "provisionServices", "setImmediate" } ->
         [ w EXCEPT !.pc = "done", !.failedAt = site, !.outcome = "error" ]
    [] OTHER ->
         [ w EXCEPT !.pc = "done", !.failedAt = site, !.outcome = "uncaught" ]

\* does the exception reach no catch at all (an unhandled rejection)
Escapes(site) ==
  CatchSite(site) \notin { "callbackCatch", "provisionServices", "setImmediate" }

----------------------------------------------------------------------------
(* The steps of a worker: one action per await of provisionServices.       *)

Running(k) == ~crashed /\ k \in 1..Len(workers)

Step(k, w) ==
  /\ workers' = [ workers EXCEPT ![k] = w ]
  /\ UNCHANGED <<reqs, minted, crashed, sanIn, sanOut, sanStep>>

Fail(k, site) ==
  /\ workers' = [ workers EXCEPT ![k] = Thrown(@, site) ]
  /\ crashed' = Escapes(site)
  /\ UNCHANGED <<reqs, minted, sanIn, sanOut, sanStep>>

\* WorkerStart without the guard on opportunityIds
WorkerStart_NoGuard(k) ==
  /\ Running(k)
  /\ workers[k].pc = "scheduled"
  /\ LET w == workers[k]
     IN  IF ~w.client.dataApi
         THEN Step(k, [ w EXCEPT !.pc = "done", !.outcome = "noDataApi" ])
         ELSE Step(k, [ w EXCEPT !.calls = Append(@, "queryParameters"),
                                 !.pc = "awaitParameters" ])

\* the setImmediate callback runs: the guard, the dataApi check, and the
\* configuration query is sent
WorkerStart(k) ==
  /\ Running(k)
  /\ workers[k].pc = "scheduled"
  /\ LET w == workers[k]
     IN  IF Len(w.opportunityIds) = 0
         THEN Step(k, [ w EXCEPT !.pc = "done", !.outcome = "guardExit" ])
         ELSE IF ~w.client.dataApi
         THEN Step(k, [ w EXCEPT !.pc = "done", !.outcome = "noDataApi" ])
         ELSE Step(k, [ w EXCEPT !.calls = Append(@, "queryParameters"),
                                 !.pc = "awaitParameters" ])

\* the configuration query resolves: the parameters are reduced, the ids are
\* sanitized into the IN list and queryAll sends the Opportunity query
ParametersReturn(k, rows) ==
  /\ Running(k)
  /\ workers[k].pc = "awaitParameters"
  /\ LET w      == workers[k]
         inList == opportunityIdList(w.opportunityIds)
     IN  Step(k, [ w EXCEPT !.provisioningParameters = ReduceParameters(NoParameters, rows),
                            !.inList = inList,
                            !.cursor = Selected(inList),
                            !.calls = Append(@, "query"),
                            !.pc = "awaitQuery" ])

ParametersFail(k) ==
  /\ Running(k)
  /\ workers[k].pc = "awaitParameters"
  /\ Fail(k, "queryParameters")

QueryReturn(k, result) ==
  /\ Running(k)
  /\ workers[k].pc = "awaitQuery"
  /\ Step(k, queryAll(workers[k], result))

QueryFail(k) ==
  /\ Running(k)
  /\ workers[k].pc = "awaitQuery"
  /\ Fail(k, "query")

QueryMoreReturn(k, result) ==
  /\ Running(k)
  /\ workers[k].pc = "awaitQueryMore"
  /\ Step(k, queryAll(workers[k], result))

QueryMoreFail(k) ==
  /\ Running(k)
  /\ workers[k].pc = "awaitQueryMore"
  /\ Fail(k, "queryMore")

\* ProvisionReturn with a promise that is never resolved
ProvisionReturn_NeverResolves(k) ==
  /\ Running(k)
  /\ workers[k].pc = "awaitProvision"
  /\ FALSE
  /\ UNCHANGED vars

\* mockProvisionCall resolves: its result is pushed and the loops go on
ProvisionReturn(k) ==
  /\ Running(k)
  /\ workers[k].pc = "awaitProvision"
  /\ LET w   == workers[k]
         opp == w.opportunities[w.oppIdx]
         oli == opp.OpportunityLineItems[w.oliIdx]
         mockResult == mockProvisionCall(w.jobId, opp.Id, oli.Id, productLabel(oli),
                                         w.globalServiceCounter,
                                         w.provisioningParameters)
     IN  Step(k, ContinueLoop([ w EXCEPT !.services = Append(@, mockResult) ]))

\* the awaited provisioning call rejects.  mockProvisionCall as written
\* always resolves; this step stands for the provisioning action failing, and
\* belongs to SpecFailingAction only.
ProvisionFail(k) ==
  /\ Running(k)
  /\ workers[k].pc = "awaitProvision"
  /\ Fail(k, "mockProvisionCall")

CallbackReturn(k) ==
  /\ Running(k)
  /\ workers[k].pc = "awaitCallback"
  /\ Step(k, [ workers[k] EXCEPT !.pc = "done", !.outcome = "callbackDelivered" ])

CallbackFail(k) ==
  /\ Running(k)
  /\ workers[k].pc = "awaitCallback"
  /\ Fail(k, "request")

----------------------------------------------------------------------------

Init ==
  /\ reqs = << >>
  /\ minted = { }
  /\ workers = << >>
  /\ crashed = FALSE
  /\ sanIn = JsNull
  /\ sanOut = JsNull
  /\ sanStep = 0

\* the requests of the runs with several jobs at once: two bodies that are
\* accepted and provision, each with a callback address of its own, the empty
\* list, and a body without opportunityIds, each with the complete context or
\* with none
SampleBodies ==
  { [ opportunityIds |-> JsArray(<< OPP_A, PADDED_B >>),
      callbackUrl    |-> "https://example.test/cb" ],
    [ opportunityIds |-> JsArray(<< INJECT, PADDED_B >>),
      callbackUrl    |-> "https://other.test/hook" ],
    [ opportunityIds |-> JsArray(<< >>),
      callbackUrl    |-> "https://example.test/cb" ],
    [ opportunityIds |-> JsUndefined,
      callbackUrl    |-> UNDEFINED ] }

SampleClients ==
  { ClientShape(FALSE, FALSE, FALSE, FALSE),
    ClientShape(TRUE,  TRUE,  TRUE,  TRUE) }

\* the steps of the workers, whichever requests scheduled them
WorkerNext ==
  \/ \E k \in DOMAIN workers : WorkerStart(k)
  \/ \E k \in DOMAIN workers, rows \in ParameterRows : ParametersReturn(k, rows)
  \/ \E k \in DOMAIN workers : ParametersFail(k)
  \/ \E k \in DOMAIN workers : \E result \in Pages(workers[k].cursor) : QueryReturn(k, result)
  \/ \E k \in DOMAIN workers : QueryFail(k)
  \/ \E k \in DOMAIN workers : \E result \in Pages(workers[k].cursor) : QueryMoreReturn(k, result)
  \/ \E k \in DOMAIN workers : QueryMoreFail(k)
  \/ \E k \in DOMAIN workers : ProvisionReturn(k)
  \/ \E k \in DOMAIN workers : CallbackReturn(k)
  \/ \E k \in DOMAIN workers : CallbackFail(k)

\* the service under up to MaxRequests requests, whose jobs run interleaved
Next ==
  \/ \E body \in SampleBodies, client \in SampleClients :
       PostProvisionServices(body, client)
  \/ WorkerNext

Spec == Init /\ [][Next]_vars

\* one request, of any body and context, and the job it starts
PostOne(body, client) ==
  /\ reqs = << >>
  /\ PostProvisionServices(body, client)

NextJob ==
  \/ \E body \in Bodies, client \in Clients : PostOne(body, client)
  \/ WorkerNext

SpecJob == Init /\ [][NextJob]_vars

\* one job whose awaited calls all settle: a worker that can step does step
SpecJobFair == SpecJob /\ WF_vars(WorkerNext)

\* one job whose provisioning action may fail
NextFailingAction ==
  \/ NextJob
  \/ \E k \in DOMAIN workers : ProvisionFail(k)

SpecFailingAction == Init /\ [][NextFailingAction]_vars

----------------------------------------------------------------------------
(* A harness for sanitizeSalesforceId alone: it draws a value and applies  *)
(* the function to it, then to its own result.                             *)

CoreChars == << "a", "Z", "9" >>

\* n characters, alphanumeric but for `bad` put in the middle (when given)
Core(n, bad) ==
  [ i \in 1..n |-> IF bad # "" /\ i = (n + 1) \div 2 THEN bad
                   ELSE CoreChars[(i % Len(CoreChars)) + 1] ]

SanInputs ==
  { JsString(lead \o Core(n, bad) \o trail) :
      lead \in { << >>, << " " >> }, trail \in { << >>, << "\n" >> },
      n \in 0..SanMaxLen, bad \in { "", "'", " ", "-" } }
  \cup { JsNull, JsNumber }

InitSanitize ==
  /\ reqs = << >>
  /\ minted = { }
  /\ workers = << >>
  /\ crashed = FALSE
  /\ sanIn \in SanInputs
  /\ sanOut = JsNull
  /\ sanStep = 0

Sanitize ==
  /\ sanStep = 0
  /\ sanOut' = sanitizeSalesforceId(sanIn)
  /\ sanStep' = 1
  /\ UNCHANGED <<reqs, minted, workers, crashed, sanIn>>

Resanitize ==
  /\ sanStep = 1
  /\ sanOut' = sanitizeSalesforceId(sanOut)
  /\ sanStep' = sanStep + 1
  /\ UNCHANGED <<reqs, minted, workers, crashed, sanIn>>

NextSanitize == Sanitize \/ Resanitize

SpecSanitize == InitSanitize /\ [][NextSanitize]_vars

----------------------------------------------------------------------------
(* Properties.                                                             *)

WorkersOf(i) == { k \in DOMAIN workers : workers[k].req = i }

EmptyIds(body) == body.opportunityIds.t = "array" /\ body.opportunityIds.v = << >>

\* C1: a request whose opportunityIds is present but empty is answered with a
\* 4xx and schedules no worker; the scheduled workers are as many as the
\* requests accepted with a non-empty id list.
C1_EmptyIdsRejected ==
  /\ \A i \in DOMAIN reqs :
       EmptyIds(reqs[i].body) =>
         /\ reqs[i].status \in 400..499
         /\ WorkersOf(i) = { }
  /\ Len(workers) = Cardinality({ i \in DOMAIN reqs :
                                    /\ reqs[i].status = 201
                                    /\ ~EmptyIds(reqs[i].body) })

\* C2 (as stated): every request without a usable request.salesforce is
\* answered with 401 and never gets a worker.
C2_NoContextIs401 ==
  \A i \in DOMAIN reqs :
    ContextMissing(reqs[i].client) =>
      /\ reqs[i].status = 401
      /\ WorkersOf(i) = { }

\* C2 (amended): a request without a usable request.salesforce is answered
\* with 401 when its body passes the schema and with 400 when it does not;
\* either way it never gets a worker, so nothing is queried, provisioned or
\* called back for it.
C2_NoContextNoWork ==
  \A i \in DOMAIN reqs :
    ContextMissing(reqs[i].client) =>
      /\ ValidBody(reqs[i].body) => reqs[i].status = 401
      /\ ~ValidBody(reqs[i].body) => reqs[i].status = 400
      /\ reqs[i].jobId = NoJob
      /\ WorkersOf(i) = { }

C2_Witness ==
  \E i \in DOMAIN reqs :
    /\ ContextMissing(reqs[i].client) /\ reqs[i].client.org
    /\ reqs[i].body.opportunityIds.v # << >>
    /\ reqs[i].status = 401

\* C3: no job id is generated while handling a request that is rejected.
C3_NoJobIdWhenRejected ==
  \A i \in DOMAIN reqs :
    reqs[i].status # 201 => reqs[i].generated = NoJob

\* C4: every accepted request has exactly one worker, which carries the job
\* id of the response, and no two accepted requests have the same job id,
\* identical bodies included.
C4_OneWorkerPerAcceptedRequest ==
  /\ \A i \in DOMAIN reqs :
       reqs[i].status = 201 =>
         /\ reqs[i].jobId # NoJob
         /\ Cardinality(WorkersOf(i)) = 1
         /\ \A k \in WorkersOf(i) : workers[k].jobId = reqs[i].jobId
  /\ \A i, j \in DOMAIN reqs :
       (i # j /\ reqs[i].status = 201 /\ reqs[j].status = 201) =>
         reqs[i].jobId # reqs[j].jobId

C4_Witness ==
  \E i, j \in DOMAIN reqs :
    /\ i # j
    /\ reqs[i].body = reqs[j].body
    /\ reqs[i].body.opportunityIds.v # << >>
    /\ reqs[i].status = 201 /\ reqs[j].status = 201
    /\ \E k \in WorkersOf(i), m \in WorkersOf(j) :
         /\ workers[k].services # << >>
         /\ workers[m].services # << >>

\* C5: a worker sends a query, starts a provisioning action or sends the
\* callback only in a state where the 201 with its job id is already sent.
C5_ResponseBeforeWork ==
  [][ \A k \in DOMAIN workers :
        workers'[k].calls # workers[k].calls =>
          /\ reqs[workers[k].req].status = 201
          /\ reqs[workers[k].req].jobId = workers[k].jobId ]_vars

C5_Witness ==
  \E k \in DOMAIN workers :
    /\ workers[k].calls = << "queryParameters" >>
    /\ reqs[workers[k].req].status = 201

\* C6: a step in which an await of a worker throws ends that worker with the
\* error logged, leaves the process alive, and changes neither a response
\* nor any other worker.
C6_FailuresContained ==
  [][ \A k \in DOMAIN workers :
        (workers[k].failedAt = "none" /\ workers'[k].failedAt # "none") =>
          /\ ~crashed'
          /\ workers'[k].pc = "done"
          /\ workers'[k].outcome \in { "error", "callbackFailed" }
          /\ workers'[k].calls = workers[k].calls
          /\ reqs' = reqs
          /\ \A m \in DOMAIN workers \ { k } : workers'[m] = workers[m] ]_vars

C6_Witness ==
  \E k, m \in DOMAIN workers :
    /\ ~crashed
    /\ workers[k].failedAt = "queryMore"
    /\ workers[m].failedAt = "request"
    /\ reqs[workers[k].req].status = 201

\* C7: when the configuration query fails, the worker still sends the
\* Opportunity query and provisions with the default parameters.
C7_ParameterFailureNonFatal ==
  \A k \in DOMAIN workers :
    (workers[k].pc = "done" /\ workers[k].failedAt = "queryParameters") =>
      /\ \E c \in DOMAIN workers[k].calls : workers[k].calls[c] = "query"
      /\ \A n \in DOMAIN workers[k].services :
           /\ workers[k].services[n].message.tier = "Standard"
           /\ workers[k].services[n].message.region = "US"
           /\ workers[k].services[n].message.compliance = "General"

\* C8: sanitizeSalesforceId returns its argument when that is a string of
\* exactly 15 or exactly 18 alphanumeric characters, and null otherwise.
C8_SanitizeExactly15Or18 ==
  sanStep = 1 =>
    IF /\ sanIn.t = "string"
       /\ Len(sanIn.v) \in { 15, 18 }
       /\ \A i \in 1..Len(sanIn.v) : sanIn.v[i] \in AlnumChars
    THEN sanOut = sanIn
    ELSE sanOut = JsNull

Rejected(id) == sanitizeSalesforceId(id) = JsNull

\* C9: once the Opportunity query is built, its IN list holds accepted forms
\* of requested ids, in request order, and an id that sanitization rejected
\* is no literal of the list and no opportunityId of a ServiceResult.
C9_OnlySanitizedIdsQueried ==
  \A k \in DOMAIN workers :
    (\E c \in DOMAIN workers[k].calls : workers[k].calls[c] = "query") =>
      LET ids == workers[k].opportunityIds
          lst == workers[k].inList
      IN  /\ \E f \in [ DOMAIN lst -> DOMAIN ids ] :
               /\ \A a, b \in DOMAIN lst : a < b => f[a] < f[b]
               /\ \A a \in DOMAIN lst :
                    /\ ~Rejected(ids[f[a]])
                    /\ lst[a] = JsString(Trim(ids[f[a]].v))
          /\ \A i \in DOMAIN ids :
               Rejected(ids[i]) =>
                 /\ \A a \in DOMAIN lst : lst[a] # ids[i]
                 /\ \A n \in DOMAIN workers[k].services :
                      workers[k].services[n].opportunityId # ids[i]

C9_Witness ==
  \E k \in DOMAIN workers :
    /\ \E i \in DOMAIN workers[k].opportunityIds :
         Rejected(workers[k].opportunityIds[i])
    /\ \E i \in DOMAIN workers[k].opportunityIds :
         /\ ~Rejected(workers[k].opportunityIds[i])
         /\ workers[k].opportunityIds[i] \notin { workers[k].inList[a] : a \in DOMAIN workers[k].inList }
    /\ workers[k].services # << >>

RECURSIVE ConcatRecords(_)
ConcatRecords(pages) ==
  IF pages = << >> THEN << >>
  ELSE Head(pages).records \o ConcatRecords(Tail(pages))

\* queryAll has returned its array to provisionServices
QueryAllReturned(w) ==
  \/ w.pc \in { "awaitProvision", "awaitCallback" }
  \/ w.pc = "done" /\ w.outcome \in { "noServices", "noCallback",
                                      "callbackDelivered", "callbackFailed" }

\* C10: when queryAll returns, the last page it got said done = true and the
\* array returned is the concatenation of the records of all its pages.
C10_QueryAllComplete ==
  \A k \in DOMAIN workers :
    QueryAllReturned(workers[k]) =>
      /\ workers[k].pages # << >>
      /\ workers[k].pages[Len(workers[k].pages)].done
      /\ workers[k].opportunities = ConcatRecords(workers[k].pages)

\* the loops of provisionServices are over: the worker is at the summary,
\* at the callback, or past them
Aggregated(w) ==
  \/ w.pc = "awaitCallback"
  \/ w.pc = "done" /\ w.outcome \in { "noServices", "noCallback",
                                      "callbackDelivered", "callbackFailed" }

RECURSIVE ChildCount(_)
ChildCount(opps) ==
  IF opps = << >> THEN 0
  ELSE Len(Head(opps).OpportunityLineItems) + ChildCount(Tail(opps))

ResultsFor(w, opp, oli) ==
  { n \in DOMAIN w.services :
      /\ w.services[n].lineItemId = oli.Id
      /\ w.services[n].opportunityId = opp.Id }

\* C11: once the loops are over, every line item of every fetched opportunity
\* has exactly one ServiceResult, with its id as lineItemId and the id of its
\* opportunity as opportunityId, and there is no other ServiceResult.
C11_OneResultPerLineItem ==
  \A k \in DOMAIN workers :
    Aggregated(workers[k]) =>
      LET w == workers[k]
      IN  /\ \A i \in DOMAIN w.opportunities :
               \A j \in DOMAIN w.opportunities[i].OpportunityLineItems :
                 Cardinality(ResultsFor(w, w.opportunities[i],
                               w.opportunities[i].OpportunityLineItems[j])) = 1
          /\ \A n \in DOMAIN w.services :
               \E i \in DOMAIN w.opportunities :
                 \E j \in DOMAIN w.opportunities[i].OpportunityLineItems :
                   n \in ResultsFor(w, w.opportunities[i],
                                    w.opportunities[i].OpportunityLineItems[j])

C11_Witness ==
  \E k \in DOMAIN workers :
    /\ Aggregated(workers[k])
    /\ Len(workers[k].opportunities) = 3
    /\ Len(workers[k].services) = 3

\* C12: every summary the worker builds has total = services.length and
\* succeeded + failed = total, and so has the summary of a callback payload
\* against the services of that payload.
C12_SummaryCounts ==
  \A k \in DOMAIN workers :
    /\ \A n \in DOMAIN workers[k].summaries :
         /\ workers[k].summaries[n].total = Len(workers[k].services)
         /\ workers[k].summaries[n].succeeded + workers[k].summaries[n].failed
              = workers[k].summaries[n].total
    /\ \A c \in DOMAIN workers[k].callbacks :
         /\ workers[k].callbacks[c].summary.total = Len(workers[k].callbacks[c].services)
         /\ workers[k].callbacks[c].summary.succeeded
              + workers[k].callbacks[c].summary.failed
              = workers[k].callbacks[c].summary.total

C12_Witness ==
  \E k \in DOMAIN workers :
    /\ workers[k].callbacks # << >>
    /\ workers[k].callbacks[1].summary.total = 2
    /\ Len(workers[k].opportunities) = 2

\* C13: a job whose fetched opportunities have no line item at all sends no
\* callback request, with or without a callbackUrl.
C13_NoCallbackWithoutLineItems ==
  \A k \in DOMAIN workers :
    (QueryAllReturned(workers[k]) /\ ChildCount(workers[k].opportunities) = 0) =>
      /\ workers[k].callbacks = << >>
      /\ \A c \in DOMAIN workers[k].calls : workers[k].calls[c] # "request"
      /\ workers[k].pc = "done"
      /\ workers[k].outcome = "noServices"

C13_Witness ==
  \E k \in DOMAIN workers :
    /\ workers[k].callbackUrl # UNDEFINED
    /\ workers[k].outcome = "noServices"
    /\ Len(workers[k].opportunities) = 1

CountOf(calls, op) == Cardinality({ c \in DOMAIN calls : calls[c] = op })

\* C14: a job sends at most one callback request, and a job whose callback
\* request failed makes no further call.
C14_AtMostOneCallback ==
  [][ \A k \in DOMAIN workers :
        /\ Len(workers'[k].callbacks) <= 1
        /\ CountOf(workers'[k].calls, "request") <= 1
        /\ workers[k].failedAt = "request" =>
             /\ workers'[k].calls = workers[k].calls
             /\ workers'[k].callbacks = workers[k].callbacks
             /\ workers'[k].pc = "done" ]_vars

C14_Witness ==
  \E k \in DOMAIN workers :
    /\ workers[k].failedAt = "request"
    /\ workers[k].pc = "done"
    /\ Len(workers[k].callbacks) = 1

\* C15: a job without callbackUrl never calls org.request; when nothing
\* fails it still sends the queries and provisions every fetched line item.
C15_NoUrlNoRequest ==
  \A k \in DOMAIN workers :
    workers[k].callbackUrl = UNDEFINED =>
      /\ workers[k].callbacks = << >>
      /\ CountOf(workers[k].calls, "request") = 0
      /\ (workers[k].pc = "done" /\ workers[k].outcome = "noCallback") =>
           /\ CountOf(workers[k].calls, "queryParameters") = 1
           /\ CountOf(workers[k].calls, "query") = 1
           /\ CountOf(workers[k].calls, "mockProvisionCall")
                = ChildCount(workers[k].opportunities)
           /\ Len(workers[k].services) = ChildCount(workers[k].opportunities)

C15_Witness ==
  \E k \in DOMAIN workers :
    /\ workers[k].callbackUrl = UNDEFINED
    /\ workers[k].outcome = "noCallback"
    /\ Len(workers[k].services) = 3

\* C16: once the queries of an accepted job with a callbackUrl have returned
\* opportunities with k >= 1 line items, the job comes to have sent one
\* callback POST to that url with k services and summary (k, k, 0); it never
\* sends a second one.
C16_CallbackSent(k) ==
  /\ k \in DOMAIN workers
  /\ Len(workers[k].callbacks) = 1
  /\ LET w  == workers[k]
         cb == workers[k].callbacks[1]
         n  == ChildCount(workers[k].opportunities)
     IN  /\ reqs[w.req].status = 201
         /\ cb.jobId = reqs[w.req].jobId
         /\ cb.url = reqs[w.req].body.callbackUrl
         /\ cb.method = "POST"
         /\ Len(cb.services) = n
         /\ cb.summary = [ total |-> n, succeeded |-> n, failed |-> 0 ]

C16_QueriesReturnedLineItems(k) ==
  /\ k \in DOMAIN workers
  /\ workers[k].callbackUrl # UNDEFINED
  /\ QueryAllReturned(workers[k])
  /\ ChildCount(workers[k].opportunities) >= 1

C16_CallbackEventuallySent ==
  /\ \A k \in 1..MaxRequests :
       C16_QueriesReturnedLineItems(k) ~> C16_CallbackSent(k)
  /\ [](\A k \in DOMAIN workers : Len(workers[k].callbacks) <= 1)

C16_Witness ==
  \E k \in DOMAIN workers :
    /\ C16_CallbackSent(k)
    /\ Len(workers[k].opportunities) = 1
    /\ workers[k].callbacks[1].summary.total = 2
    /\ workers[k].outcome = "callbackDelivered"

RECURSIVE FlattenIds(_)
FlattenIds(opps) ==
  IF opps = << >> THEN << >>
  ELSE [ j \in DOMAIN Head(opps).OpportunityLineItems |->
           << Head(opps).Id, Head(opps).OpportunityLineItems[j].Id >> ]
       \o FlattenIds(Tail(opps))

\* C18: provisioning actions run one at a time, in the order of the fetched
\* opportunities and of their line items; the n-th result has the serviceId
\* svc-<jobId>-<n>, so the serviceIds grow by one and are pairwise distinct.
C18_SequentialInOrder ==
  \A k \in DOMAIN workers :
    LET w == workers[k]
    IN  /\ \A n \in DOMAIN w.services :
             /\ w.services[n].serviceId = << "svc", w.jobId, n >>
             /\ << w.services[n].opportunityId, w.services[n].lineItemId >>
                  = FlattenIds(w.opportunities)[n]
        /\ \A n, m \in DOMAIN w.services :
             n # m => w.services[n].serviceId # w.services[m].serviceId
        /\ Len(w.services) <= ChildCount(w.opportunities)
        /\ CountOf(w.calls, "mockProvisionCall") = w.globalServiceCounter
        /\ w.globalServiceCounter
             = Len(w.services) + (IF w.pc = "awaitProvision" THEN 1 ELSE 0)

C18_Witness ==
  \E k \in DOMAIN workers :
    /\ Len(workers[k].opportunities) = 3
    /\ Len(workers[k].services) = 3
    /\ workers[k].services[3].serviceId = << "svc", workers[k].jobId, 3 >>

\* C19: a worker started with an empty id list ends at the guard: it sends
\* no query, starts no provisioning action and sends no callback.
C19_GuardStopsEmptyJob ==
  \A k \in DOMAIN workers :
    Len(workers[k].opportunityIds) = 0 =>
      /\ workers[k].calls = << >>
      /\ workers[k].callbacks = << >>
      /\ workers[k].services = << >>
      /\ workers[k].pc \in { "scheduled", "done" }
      /\ workers[k].pc = "done" => workers[k].outcome = "guardExit"

C19_Witness ==
  \E k \in DOMAIN workers :
    /\ workers[k].opportunityIds = << >>
    /\ workers[k].callbackUrl # UNDEFINED
    /\ workers[k].outcome = "guardExit"

TerminalOutcomes ==
  { "guardExit", "noDataApi", "noServices", "noCallback",
    "callbackDelivered", "callbackFailed", "error" }

\* C20: when every awaited call settles, every scheduled worker comes to its
\* end; a worker ends only at the guard, at the empty result, after the
\* callback or its omission, or on a failure of the call it awaited.
C20_WorkersTerminate ==
  /\ \A k \in 1..MaxRequests :
       (k \in DOMAIN workers) ~> (k \in DOMAIN workers /\ workers[k].pc = "done")
  /\ [][ \A k \in DOMAIN workers :
           (workers[k].pc # "done" /\ workers'[k].pc = "done") =>
             /\ workers'[k].outcome \in TerminalOutcomes
             /\ workers'[k].outcome \in { "error", "callbackFailed" }
                  <=> workers'[k].failedAt # "none"
             /\ workers'[k].outcome = "guardExit" <=> workers[k].pc = "scheduled" ]_vars

C20_Witness ==
  \E k \in DOMAIN workers :
    /\ workers[k].pc = "done"
    /\ Len(workers[k].pages) = 3
    /\ workers[k].outcome = "callbackDelivered"

\* C21: jobs that run at once do not interfere.  A step changes one job
\* only and never its job id, id list or callback address; every callback
\* carries the job id answered to the job's own submitter, the id list and
\* the address of its own request, and only results of its own provisioning
\* calls, numbered from 1 with its own job id.
C21_OwnCallback(k) ==
  LET w   == workers[k]
      req == reqs[workers[k].req]
  IN  /\ w.jobId = req.jobId
      /\ w.opportunityIds = req.body.opportunityIds.v
      /\ w.callbackUrl = req.body.callbackUrl
      /\ \A l \in DOMAIN workers : l # k => workers[l].jobId # w.jobId
      /\ \A c \in DOMAIN w.callbacks :
           /\ w.callbacks[c].jobId = req.jobId
           /\ w.callbacks[c].opportunityIds = req.body.opportunityIds.v
           /\ w.callbacks[c].url = req.body.callbackUrl
           /\ w.callbacks[c].services = w.services
      /\ \A n \in DOMAIN w.services :
           /\ w.services[n].serviceId = << "svc", req.jobId, n >>
           /\ << w.services[n].opportunityId, w.services[n].lineItemId >>
                = FlattenIds(Selected(opportunityIdList(req.body.opportunityIds.v)))[n]

C21_JobsIndependent ==
  /\ [](\A k \in DOMAIN workers : C21_OwnCallback(k))
  /\ [][ \A k \in DOMAIN workers :
           /\ workers'[k].jobId = workers[k].jobId
           /\ workers'[k].opportunityIds = workers[k].opportunityIds
           /\ workers'[k].callbackUrl = workers[k].callbackUrl
           /\ workers'[k] # workers[k] =>
                \A l \in DOMAIN workers : l # k => workers'[l] = workers[l] ]_vars

C21_Witness ==
  \E k, l \in DOMAIN workers :
    /\ workers[k].jobId # workers[l].jobId
    /\ workers[k].callbackUrl # workers[l].callbackUrl
    /\ workers[k].opportunityIds # workers[l].opportunityIds
    /\ Len(workers[k].callbacks) = 1 /\ Len(workers[k].services) = 3
    /\ Len(workers[l].callbacks) = 1 /\ Len(workers[l].services) = 1
    /\ workers[k].pc = "done" /\ workers[l].pc = "done"

\* C22: a job none of whose ids survives sanitization sends no
\* parent-record query, starts no provisioning action and sends no callback.
C22_NoQueryWhenAllRejected ==
  \A k \in DOMAIN workers :
    opportunityIdList(workers[k].opportunityIds) = << >> =>
      /\ CountOf(workers[k].calls, "query") = 0
      /\ CountOf(workers[k].calls, "mockProvisionCall") = 0
      /\ workers[k].callbacks = << >>

====
